---- MODULE Spec2Model ----
(***************************************************************************)
(* tmuxp.window.Window: a handle on one tmux window.  The handle keeps     *)
(* only the window_id it was constructed with; every attribute is looked   *)
(* up in the server's last snapshot of `list-windows` (server._windows),   *)
(* and every operation formats an argv, hands it to server.tmux and reads  *)
(* the stdout / stderr lines that come back.                               *)
(*                                                                         *)
(* Python values are modelled with a tag (str, int, bool, list, dict,      *)
(* None); a Python str is a sequence of one-character strings, so that     *)
(* split, isdigit, int and % formatting are computed, not assumed.         *)
(***************************************************************************)
EXTENDS Integers, Sequences, FiniteSets, TLC

VARIABLES
    _window_id,   \* Window._window_id, set by __init__
    _windows,     \* server._windows: the rows of the last list-windows snapshot
    call,         \* the last operation called on the Window and its arguments
    process,      \* what server.tmux returned to that call (or a canned result)
    canned,       \* the tokens the canned stdout lines were joined from
    trace,        \* what the call did, in order: tmux commands, item writes, refreshes
    outcome       \* how the call ended: a returned value or a raised exception

vars == <<_window_id, _windows, call, process, canned, trace, outcome>>

----------------------------------------------------------------------------
(* Bounds of the model. *)

MaxWindows == 2   \* rows in a server._windows snapshot
MaxLines == 2     \* lines in a canned show-window-options stdout

----------------------------------------------------------------------------
(* Python values. *)

None == [t |-> "None"]
PyStr(s) == [t |-> "str", v |-> s]
PyInt(n) == [t |-> "int", v |-> n]
PyBool(b) == [t |-> "bool", v |-> b]
PyList(l) == [t |-> "list", v |-> l]
PyDict(d) == [t |-> "dict", v |-> d]
SelfRef == [t |-> "Window", v |-> "self"]

Digits == {"0", "1", "2", "3", "4", "5", "6", "7", "8", "9"}

DigitVal(c) ==
    CASE c = "0" -> 0 [] c = "1" -> 1 [] c = "2" -> 2 [] c = "3" -> 3
      [] c = "4" -> 4 [] c = "5" -> 5 [] c = "6" -> 6 [] c = "7" -> 7
      [] c = "8" -> 8 [] c = "9" -> 9

\* str.isdigit(): at least one character, and every character a digit.
isdigit(s) == Len(s) > 0 /\ \A i \in 1..Len(s) : s[i] \in Digits

\* int(s) of a string of decimal digits.
RECURSIVE int(_)
int(s) ==
    IF Len(s) = 0 THEN 0
    ELSE 10 * int(SubSeq(s, 1, Len(s) - 1)) + DigitVal(s[Len(s)])

\* s.split(sep) with a one-character separator: every occurrence cuts, so
\* two separators in a row give an empty field and '' gives [''].
RECURSIVE split(_, _)
split(s, sep) ==
    IF \A i \in 1..Len(s) : s[i] # sep THEN <<s>>
    ELSE LET i == CHOOSE j \in 1..Len(s) :
                      s[j] = sep /\ \A k \in 1..(j - 1) : s[k] # sep
         IN  <<SubSeq(s, 1, i - 1)>> \o split(SubSeq(s, i + 1, Len(s)), sep)

\* sep.join(parts): what tmux does when it prints the fields of a line.
RECURSIVE join(_, _)
join(parts, sep) ==
    IF Len(parts) = 0 THEN <<>>
    ELSE IF Len(parts) = 1 THEN parts[1]
    ELSE parts[1] \o <<sep>> \o join(Tail(parts), sep)

\* repr() of a str without quotes or backslashes in it.
repr(s) == <<"'">> \o s \o <<"'">>

RECURSIVE reprItems(_)
reprItems(l) ==
    IF Len(l) = 0 THEN <<>>
    ELSE IF Len(l) = 1 THEN repr(l[1])
    ELSE repr(l[1]) \o <<",", " ">> \o reprItems(Tail(l))

\* '%s' % x, which is str(x): a str as it is, a list of str as its repr.
str(x) ==
    CASE x.t = "str" -> x.v
      [] x.t = "list" -> <<"[">> \o reprItems(x.v) \o <<"]">>
      [] x.t = "None" -> <<"N", "o", "n", "e">>

\* The truth value Python's `if x:` gives.
truthy(x) ==
    CASE x.t = "None" -> FALSE
      [] x.t = "bool" -> x.v
      [] x.t = "int" -> x.v # 0
      [] x.t = "str" -> Len(x.v) > 0
      [] x.t = "list" -> Len(x.v) > 0
      [] x.t = "dict" -> DOMAIN x.v # {}

\* How a call ends.
Return(v) == [kind |-> "return", exc |-> "", value |-> v]
Raise(e, v) == [kind |-> "raise", exc |-> e, value |-> v]
NotCalled == [kind |-> "none", exc |-> "", value |-> None]

----------------------------------------------------------------------------
(* The data of the model: ids, names, rows, argv fragments. *)

W1 == <<"@", "1">>
W2 == <<"@", "2">>
WindowIds == {W1, W2}

\* self.session.get('session_id'): the Session is looked up like the Window,
\* in the server's session list; here it is the one session of the server.
session_id == <<"$", "0">>

NameA == <<"a">>
NameB == <<"b", " ", "c">>
Names == {NameA, NameB}

\* A row of server._windows: a dict of the list-windows format fields.  A row
\* may lack window_id (the server drops the fields tmux printed empty).
Row(id, name) == [session_id |-> session_id, window_id |-> id, window_name |-> name]
RowNoId(name) == [session_id |-> session_id, window_name |-> name]
Rows == {Row(W1, NameA), Row(W1, NameB), Row(W2, NameA), RowNoId(NameA)}

RECURSIVE SeqsUpTo(_, _)
SeqsUpTo(S, n) ==
    IF n = 0 THEN {<<>>}
    ELSE LET shorter == SeqsUpTo(S, n - 1)
         IN  shorter \cup {Append(q, x) : q \in shorter, x \in S}

Snapshots == SeqsUpTo(Rows, MaxWindows)

DashT == <<"-", "t">>

\* One thing a call did.
Tmux(argv) == [ev |-> "tmux", argv |-> argv]
SetItem(key, value) == [ev |-> "__setitem__", key |-> key, value |-> value]
UpdateWindows == [ev |-> "_update_windows"]
LoggerError(e) == [ev |-> "logger.error", exc |-> e]

\* What server.tmux gives back: it raised, or a process object with the
\* stdout lines and the stderr of the command.
Proc(out, err) == [raises |-> FALSE, stdout |-> out, stderr |-> err]
TmuxRaised == [raises |-> TRUE, stdout |-> <<>>, stderr |-> PyList(<<>>)]
NoProcess == Proc(<<>>, PyList(<<>>))

Err1 == <<"n", "o">>
Err2 == <<"x">>
Stderrs ==
    {PyList(<<>>), PyList(<<Err1>>), PyList(<<Err1, Err2>>), PyStr(Err1), PyStr(<<>>)}

\* rename-window, select-layout and set-window-option print nothing on stdout.
SilentResults == {Proc(<<>>, e) : e \in Stderrs} \cup {TmuxRaised}
RenameResults == {Proc(<<>>, PyList(<<>>)), Proc(<<>>, PyList(<<Err1>>)), TmuxRaised}

----------------------------------------------------------------------------
(* Window._TMUX and the mapping methods built on it. *)

\* by with the KeyError not caught as False: a row without the key passes.
by_KeyErrorPasses(val) ==
    IF "window_id" \notin DOMAIN val THEN TRUE
    ELSE IF _window_id # val["window_id"] THEN FALSE
    ELSE TRUE

\* The filter of _TMUX, over attrs = {'window_id': self._window_id}: a row
\* passes when it has the key and the value is equal; a KeyError is False.
by(val) ==
    IF "window_id" \notin DOMAIN val THEN FALSE
    ELSE IF _window_id # val["window_id"] THEN FALSE
    ELSE TRUE

\* list(filter(by, self.server._windows))[0]: the first row that passes, an
\* IndexError when none does.
_TMUX ==
    LET found == SelectSeq(_windows, by)
    IN  IF Len(found) = 0 THEN Raise("IndexError", None)
        ELSE Return(PyDict(found[1]))

\* self[key], which is self._TMUX[key].
__getitem__(key) ==
    IF _TMUX.kind = "raise" THEN _TMUX
    ELSE IF key \notin DOMAIN _TMUX.value.v THEN Raise("KeyError", None)
    ELSE Return(PyStr(_TMUX.value.v[key]))

\* self.get(key): the mapping's get, whose default None answers a KeyError only.
get(key) ==
    IF __getitem__(key).kind = "raise" /\ __getitem__(key).exc = "KeyError"
    THEN Return(None)
    ELSE __getitem__(key)

\* Window.target: "%s:%s" % (session_id, window_id).
target ==
    IF get("window_id").kind = "raise" THEN get("window_id")
    ELSE Return(PyStr(session_id \o <<":">> \o str(get("window_id").value)))

----------------------------------------------------------------------------
(* The operations of Window.  Each is given what server.tmux will answer   *)
(* (proc) and yields what the call did: the tmux result it consumed, the   *)
(* trace of its steps and its outcome.                                     *)

Did(proc, tr, out) == [process |-> proc, trace |-> tr, outcome |-> out]

\* select_layout(layout): the result of the command is dropped.
select_layout(layout, proc) ==
    IF target.kind = "raise" THEN Did(NoProcess, <<>>, target)
    ELSE LET cmd == Tmux(<<"select-layout", DashT \o target.value.v, layout>>)
         IN  IF proc.raises THEN Did(proc, <<cmd>>, Raise("Exception", None))
             ELSE Did(proc, <<cmd>>, Return(None))

OnStr == <<"o", "n">>
OffStr == <<"o", "f", "f">>

\* OptionValue with `value == True` in place of the isinstance test: 1 and 0
\* are turned into on / off too.
OptionValue_ByEquality(value) ==
    IF value \in {PyBool(TRUE), PyInt(1)} THEN PyStr(OnStr)
    ELSE IF value \in {PyBool(FALSE), PyInt(0)} THEN PyStr(OffStr)
    ELSE value

\* The value set_window_option sends: only a bool is turned into on / off.
OptionValue(value) ==
    IF value.t = "bool" /\ value.v THEN PyStr(OnStr)
    ELSE IF value.t = "bool" /\ ~value.v THEN PyStr(OffStr)
    ELSE value

StderrPrefix ==
    <<"t", "m", "u", "x", " ", "s", "e", "t", "-", "w", "i", "n", "d", "o", "w",
      "-", "o", "p", "t", "i", "o", "n", " ", "s", "t", "d", "e", "r", "r", ":", " ">>

\* StderrShown without the unwrapping of a one-line list.
StderrShown_Raw(err) == err

\* process.stderr as the raise formats it: a list of one line becomes the line.
StderrShown(err) ==
    IF err.t = "list" /\ Len(err.v) = 1 THEN PyStr(err.v[1]) ELSE err

set_window_option(option, value, proc) ==
    IF __getitem__("window_id").kind = "raise"
    THEN Did(NoProcess, <<>>, __getitem__("window_id"))
    ELSE LET cmd == Tmux(<<"set-window-option",
                           DashT \o str(__getitem__("window_id").value),
                           option, OptionValue(value)>>)
         IN  IF proc.raises THEN Did(proc, <<cmd>>, Raise("Exception", None))
             ELSE IF truthy(proc.stderr)
             THEN Did(proc, <<cmd>>,
                      Raise("ValueError",
                            PyStr(StderrPrefix \o str(StderrShown(proc.stderr)))))
             ELSE Did(proc, <<cmd>>, Return(None))

\* [tuple(item.split(' ')) for item in lines]
SplitLines(lines) == [i \in 1..Len(lines) |-> split(lines[i], " ")]

\* dict(pairs): the pairs are stored in order, a later one replacing an
\* earlier one with the same key.
RECURSIVE dict(_)
dict(pairs) ==
    IF Len(pairs) = 0 THEN <<>>
    ELSE LET d == dict(SubSeq(pairs, 1, Len(pairs) - 1))
             p == pairs[Len(pairs)]
         IN  [k \in DOMAIN d \cup {p[1]} |-> IF k = p[1] THEN p[2] ELSE d[k]]

\* Coerce without the isdigit branch.
Coerce_Never(value) == PyStr(value)

\* A numeric string becomes an int, any other string stays.
Coerce(value) == IF isdigit(value) THEN PyInt(int(value)) ELSE PyStr(value)

\* show_window_option reading the last printed line instead of the first.
show_window_option_LastLine(option, proc) ==
    LET cmd == Tmux(<<"show-window-options", option>>)
        last == SplitLines(proc.stdout)[Len(proc.stdout)]
    IN  IF proc.raises THEN Did(proc, <<cmd>>, Raise("Exception", None))
        ELSE IF ~truthy(PyList(proc.stdout)) THEN Did(proc, <<cmd>>, Return(None))
        ELSE IF Len(last) < 2 THEN Did(proc, <<cmd>>, Raise("IndexError", None))
        ELSE Did(proc, <<cmd>>, Return(Coerce(last[2])))

\* show_window_option(option)
show_window_option(option, proc) ==
    LET cmd == Tmux(<<"show-window-options", option>>)
        first == SplitLines(proc.stdout)[1]
    IN  IF proc.raises THEN Did(proc, <<cmd>>, Raise("Exception", None))
        ELSE IF ~truthy(PyList(proc.stdout)) THEN Did(proc, <<cmd>>, Return(None))
        ELSE IF Len(first) < 2 THEN Did(proc, <<cmd>>, Raise("IndexError", None))
        ELSE Did(proc, <<cmd>>, Return(Coerce(first[2])))

\* show_window_options(option=None)
show_window_options(option, proc) ==
    IF truthy(option) THEN show_window_option(option, proc)
    ELSE LET cmd == Tmux(<<"show-window-options">>)
             pairs == SplitLines(proc.stdout)
         IN  IF proc.raises THEN Did(proc, <<cmd>>, Raise("Exception", None))
             ELSE IF \E i \in 1..Len(pairs) : Len(pairs[i]) # 2
             THEN Did(proc, <<cmd>>, Raise("ValueError", None))
             ELSE Did(proc, <<cmd>>,
                      Return(PyDict([k \in DOMAIN dict(pairs) |->
                                        Coerce(dict(pairs)[k])])))

\* rename_window with the assignment of window_name moved out of the try
\* block: the name is set whether or not the command went through.
rename_window_AlwaysSets(new_name, proc) ==
    LET cmd == Tmux(<<"rename-window", DashT \o target.value.v, new_name>>)
        tried ==
            IF target.kind = "raise" THEN <<LoggerError(target.exc)>>
            ELSE IF proc.raises THEN <<cmd, LoggerError("Exception")>>
            ELSE <<cmd>>
    IN  Did(IF target.kind = "raise" THEN NoProcess ELSE proc,
            tried \o <<SetItem("window_name", new_name), UpdateWindows>>,
            Return(SelfRef))

\* rename_window(new_name): whatever the try block raises is logged, the
\* window list is refreshed and the Window itself is returned.
rename_window(new_name, proc) ==
    LET cmd == Tmux(<<"rename-window", DashT \o target.value.v, new_name>>)
        tried ==
            IF target.kind = "raise" THEN <<LoggerError(target.exc)>>
            ELSE IF proc.raises THEN <<cmd, LoggerError("Exception")>>
            ELSE <<cmd, SetItem("window_name", new_name)>>
    IN  Did(IF target.kind = "raise" THEN NoProcess ELSE proc,
            tried \o <<UpdateWindows>>, Return(SelfRef))

P1 == <<"%", "1">>
P2 == <<"%", "2">>
P3 == <<"%", "3">>

\* A row of server._panes.
PaneRow(wid, pid) == [session_id |-> session_id, window_id |-> wid, pane_id |-> pid]
PaneSnapshots == {<<>>, <<PaneRow(W2, P2)>>, <<PaneRow(W2, P2), PaneRow(W1, P1)>>}

UpdatePanes == [ev |-> "_update_panes"]

\* _list_panes(): the server's panes of this session, then of this window.
\* Each comparison looks the Window's own field up, so a Window that is not
\* in the snapshot fails as soon as there is a pane to compare.
_list_panes(panes) ==
    IF Len(panes) > 0 /\ get("session_id").kind = "raise" THEN get("session_id")
    ELSE LET ofSession ==
                 SelectSeq(panes, LAMBDA p : PyStr(p.session_id) = get("session_id").value)
             ofWindow ==
                 SelectSeq(ofSession, LAMBDA p : PyStr(p.window_id) = get("window_id").value)
         IN  Return(PyList(ofWindow))

\* formats.PANE_FORMATS, cut to the field a Pane is identified by.
PANE_FORMATS == <<"pane_id">>
pformats == <<"session_name", "session_id", "window_index", "window_id">> \o PANE_FORMATS

\* dict(zip(pformats, fields)) without the entries whose value is empty.
PaneDict(fields) ==
    LET n == IF Len(fields) < Len(pformats) THEN Len(fields) ELSE Len(pformats)
        kept == {i \in 1..n : Len(fields[i]) > 0}
    IN  [k \in {pformats[i] : i \in kept} |->
            fields[CHOOSE i \in kept : pformats[i] = k]]

\* split_window(attach=True)
split_window(attach, panes, proc) ==
    LET mine == _list_panes(panes)
        cmd == Tmux(<<"split-window", DashT \o mine.value.v[1].pane_id, "-P",
                      <<"-F", pformats>>>> \o (IF attach THEN <<>> ELSE <<"-d">>))
    IN  IF mine.kind = "raise" THEN Did(NoProcess, <<UpdatePanes>>, mine)
        ELSE IF Len(mine.value.v) = 0
        THEN Did(NoProcess, <<UpdatePanes>>, Raise("IndexError", None))
        ELSE IF proc.raises
        THEN Did(proc, <<UpdatePanes, cmd>>, Raise("Exception", None))
        ELSE IF truthy(proc.stderr)
        THEN Did(proc, <<UpdatePanes, cmd>>, Raise("Exception", proc.stderr))
        ELSE IF Len(proc.stdout) = 0
        THEN Did(proc, <<UpdatePanes, cmd>>, Raise("IndexError", None))
        ELSE Did(proc, <<UpdatePanes, cmd>>,
                 Return([t |-> "Pane", v |-> PaneDict(split(proc.stdout[1], "\t"))]))

----------------------------------------------------------------------------
(* The inputs of the calls. *)

Key1 == <<"k">>
Key2 == <<"m", "-", "n">>
Layouts == {None, PyStr(<<"t", "i", "l", "e", "d">>)}
SetValues ==
    {PyBool(TRUE), PyBool(FALSE), PyInt(1), PyInt(0), PyStr(OnStr), PyStr(OffStr)}
Options == {None, PyStr(<<>>), PyStr(Key1)}

ShowResults ==
    {Proc(o, e) : o \in {<<>>, <<join(<<Key1, <<"1", "0">>>>, " ")>>},
                  e \in {PyList(<<>>), PyList(<<Err1>>)}}
        \cup {TmuxRaised}
SplitResults ==
    {Proc(o, e) : o \in {<<>>, <<join(<<NameA, session_id, <<>>, W1, P3>>, "\t")>>},
                  e \in {PyList(<<>>), PyList(<<Err1>>)}}
        \cup {TmuxRaised}

----------------------------------------------------------------------------
(* The state machine: one action per call on the Window. *)

NoCall == [op |-> "none", args |-> <<>>]

Init ==
    /\ _window_id \in WindowIds
    /\ _windows \in Snapshots
    /\ call = NoCall
    /\ process = NoProcess
    /\ canned = <<>>
    /\ trace = <<>>
    /\ outcome = NotCalled

Finish(op, args, did) ==
    /\ call' = [op |-> op, args |-> args]
    /\ process' = did.process
    /\ trace' = did.trace
    /\ outcome' = did.outcome

\* Window(session=session, **kwargs): a new handle replaces the old one.
__init__ ==
    \E session \in BOOLEAN, kwargs \in {<<>>} \cup {[window_id |-> i] : i \in WindowIds} :
        /\ _window_id' =
               IF session /\ "window_id" \in DOMAIN kwargs THEN kwargs["window_id"]
               ELSE _window_id
        /\ Finish("__init__", <<session, kwargs>>,
                  Did(NoProcess, <<>>,
                      IF ~session THEN Raise("ValueError", None)
                      ELSE IF "window_id" \notin DOMAIN kwargs
                      THEN Raise("ValueError", None)
                      ELSE Return(None)))
        /\ UNCHANGED <<_windows, canned>>

\* A read of the property window._TMUX: the Window's row.
ReadRow ==
    /\ Finish("_TMUX", <<>>, Did(NoProcess, <<>>, _TMUX))
    /\ UNCHANGED <<_window_id, _windows, canned>>

\* An attribute read, window[key] or window.get(key).
ReadItem ==
    \E key \in {"window_id", "window_name", "window_index"} :
        /\ \/ Finish("__getitem__", <<key>>, Did(NoProcess, <<>>, __getitem__(key)))
           \/ Finish("get", <<key>>, Did(NoProcess, <<>>, get(key)))
        /\ UNCHANGED <<_window_id, _windows, canned>>

\* server._update_windows(): the list is read again from tmux, which any
\* other client may have changed meanwhile.
_update_windows == _windows' \in Snapshots

Refresh ==
    /\ _update_windows
    /\ Finish("_update_windows", <<>>, Did(NoProcess, <<UpdateWindows>>, Return(None)))
    /\ UNCHANGED <<_window_id, canned>>

SelectLayout ==
    \E layout \in Layouts, proc \in SilentResults :
        /\ Finish("select_layout", <<layout>>, select_layout(layout, proc))
        /\ UNCHANGED <<_window_id, _windows, canned>>

SetWindowOption ==
    \E value \in SetValues, proc \in SilentResults :
        /\ Finish("set_window_option", <<PyStr(Key1), value>>,
                  set_window_option(PyStr(Key1), value, proc))
        /\ UNCHANGED <<_window_id, _windows, canned>>

ShowWindowOptions ==
    \E option \in Options, proc \in ShowResults :
        /\ Finish("show_window_options", <<option>>, show_window_options(option, proc))
        /\ UNCHANGED <<_window_id, _windows, canned>>

ShowWindowOption ==
    \E option \in Options \ {None}, proc \in ShowResults :
        /\ Finish("show_window_option", <<option>>, show_window_option(option, proc))
        /\ UNCHANGED <<_window_id, _windows, canned>>

RenameWindow ==
    \E new_name \in Names, proc \in RenameResults :
        /\ Finish("rename_window", <<new_name>>, rename_window(new_name, proc))
        /\ _update_windows
        /\ UNCHANGED <<_window_id, canned>>

SplitWindow ==
    \E attach \in BOOLEAN, panes \in PaneSnapshots, proc \in SplitResults :
        /\ Finish("split_window", <<attach, panes>>, split_window(attach, panes, proc))
        /\ UNCHANGED <<_window_id, _windows, canned>>

Next ==
    \/ __init__
    \/ ReadRow
    \/ ReadItem
    \/ Refresh
    \/ SelectLayout
    \/ SetWindowOption
    \/ ShowWindowOptions
    \/ ShowWindowOption
    \/ RenameWindow
    \/ SplitWindow

Spec == Init /\ [][Next]_vars

----------------------------------------------------------------------------
(* The option parsers on canned output: tmux's stdout is fixed first, from *)
(* the tokens of its lines, and one of the two methods is then called.     *)

ValueTokens == {<<"1", "0">>, <<"0", "7">>, <<"o", "n">>, <<"1", "x">>, <<>>}

\* The tokens of a line: key and value, or a line of another shape (a lone
\* key, a value with a space in it).
CannedLines ==
    {<<k, v>> : k \in {Key1, Key2}, v \in ValueTokens}
        \cup {<<Key1>>, <<Key1, <<"a">>, <<"7">>>>}

Printed(lines) == [i \in 1..Len(lines) |-> join(lines[i], " ")]

InitOptions ==
    /\ _window_id = W1
    /\ _windows = <<Row(W1, NameA)>>
    /\ call = NoCall
    /\ canned \in SeqsUpTo(CannedLines, MaxLines)
    /\ process = Proc(Printed(canned), PyList(<<>>))
    /\ trace = <<>>
    /\ outcome = NotCalled

ShowWindowOptionsCanned ==
    /\ call = NoCall
    /\ \E option \in Options \cup {PyStr(Key2)} :
           Finish("show_window_options", <<option>>, show_window_options(option, process))
    /\ UNCHANGED <<_window_id, _windows, canned>>

ShowWindowOptionCanned ==
    /\ call = NoCall
    /\ \E option \in {PyStr(<<>>), PyStr(Key1), PyStr(Key2)} :
           Finish("show_window_option", <<option>>, show_window_option(option, process))
    /\ UNCHANGED <<_window_id, _windows, canned>>

NextOptions ==
    \/ ShowWindowOptionsCanned
    \/ ShowWindowOptionCanned

SpecOptions == InitOptions /\ [][NextOptions]_vars

----------------------------------------------------------------------------
(* What the option parsers are expected to give, told from the tokens the  *)
(* canned lines were printed from.                                         *)

OnlyDigits(v) == v # <<>> /\ \A i \in 1..Len(v) : v[i] \in Digits

RECURSIVE Pow10(_)
Pow10(n) == IF n = 0 THEN 1 ELSE 10 * Pow10(n - 1)

RECURSIVE NumberFrom(_, _)
NumberFrom(v, i) ==
    IF i > Len(v) THEN 0
    ELSE DigitVal(v[i]) * Pow10(Len(v) - i) + NumberFrom(v, i + 1)

Expected(v) == IF OnlyDigits(v) THEN PyInt(NumberFrom(v, 1)) ELSE PyStr(v)

KeyValueLines == \A i \in 1..Len(canned) : Len(canned[i]) = 2

LastLineOf(k) ==
    CHOOSE i \in 1..Len(canned) :
        canned[i][1] = k /\ \A j \in (i + 1)..Len(canned) : canned[j][1] # k

\* C4: show_window_options() without an option, on a stdout of '<key> <value>'
\* lines, returns a dict with exactly one entry per distinct key; the entry is
\* the value of the last line with that key, as an int when the value is made
\* of digits only and as the unchanged string otherwise.
C4_OptionsDict ==
    (call.op = "show_window_options" /\ call.args[1] = None /\ KeyValueLines)
        => /\ outcome.kind = "return"
           /\ outcome.value.t = "dict"
           /\ DOMAIN outcome.value.v = {canned[i][1] : i \in 1..Len(canned)}
           /\ \A k \in DOMAIN outcome.value.v :
                  outcome.value.v[k] = Expected(canned[LastLineOf(k)][2])

C4_Witness ==
    /\ call.op = "show_window_options"
    /\ call.args[1] = None
    /\ canned = <<<<Key1, <<"o", "n">>>>, <<Key1, <<"0", "7">>>>>>
    /\ outcome = Return(PyDict([k \in {Key1} |-> PyInt(7)]))

----------------------------------------------------------------------------
(* The claims about the calls, on the state the call leaves behind. *)

\* The tmux commands the last call issued, in order.
Commands == SelectSeq(trace, LAMBDA e : e.ev = "tmux")

\* The last call got an answer from tmux (server.tmux returned a process).
TmuxReturned == Commands # <<>> /\ ~process.raises

\* The rows of the window list that carry the Window's own window_id.
Matching ==
    {i \in 1..Len(_windows) :
        "window_id" \in DOMAIN _windows[i] /\ _windows[i]["window_id"] = _window_id}

\* C1: rename_window, split_window, select_layout, show_window_options and
\* show_window_option raise an exception carrying the stderr whenever the
\* tmux result has a non-empty stderr, and do not return normally.
C1_StderrAlwaysRaises ==
    (/\ call.op \in {"rename_window", "split_window", "select_layout",
                     "show_window_options", "show_window_option"}
     /\ TmuxReturned
     /\ truthy(process.stderr))
        => outcome.kind = "raise" /\ outcome.value = process.stderr

\* The text of a stderr as the ValueError shows it.
ShownText(err) ==
    CASE err = PyList(<<Err1>>) -> <<"n", "o">>
      [] err = PyStr(Err1) -> <<"n", "o">>
      [] err = PyList(<<Err1, Err2>>) ->
            <<"[", "'", "n", "o", "'", ",", " ", "'", "x", "'", "]">>

\* C2: set_window_option raises ValueError exactly when the tmux result has a
\* non-empty stderr; the message is 'tmux set-window-option stderr: ' and the
\* stderr, a list of one element shown as that element and any other stderr
\* as it is; with an empty stderr the call returns normally.
C2_SetOptionError ==
    call.op = "set_window_option"
        => /\ (outcome.exc = "ValueError") = (TmuxReturned /\ process.stderr.v # <<>>)
           /\ (TmuxReturned /\ process.stderr.v # <<>>)
                  => /\ outcome.kind = "raise"
                     /\ outcome.value = PyStr(StderrPrefix \o ShownText(process.stderr))
           /\ (TmuxReturned /\ process.stderr.v = <<>>) => outcome = Return(None)

C2_Witness ==
    /\ call.op = "set_window_option"
    /\ process = Proc(<<>>, PyList(<<Err1>>))
    /\ outcome = Raise("ValueError", PyStr(StderrPrefix \o <<"n", "o">>))

\* The value a set-window-option command is expected to carry.
Sent(value) ==
    CASE value = PyBool(TRUE) -> PyStr(<<"o", "n">>)
      [] value = PyBool(FALSE) -> PyStr(<<"o", "f", "f">>)
      [] OTHER -> value

\* The one command a set_window_option call is expected to issue.
SetOptionCommand ==
    Tmux(<<"set-window-option", <<"-", "t">> \o _window_id,
           call.args[1], Sent(call.args[2])>>)

\* C3 as stated: every set_window_option call passes to tmux exactly one
\* set-window-option command, targeted at this Window's window_id, with True
\* sent as 'on', False as 'off' and every other value unchanged.
C3_AlwaysOneCommand ==
    call.op = "set_window_option" => Commands = <<SetOptionCommand>>

\* C3 as amended: when a row of the server's window list carries this
\* Window's window_id, set_window_option passes to tmux exactly one
\* set-window-option command, targeted at that window_id, with True sent as
\* 'on', False as 'off' and every other value unchanged; when no row does,
\* the lookup of window_id raises IndexError and no command is passed.
C3_SetOptionCommand ==
    call.op = "set_window_option"
        => /\ (Commands = <<>>) = (Matching = {})
           /\ (Matching = {}) = (outcome.kind = "raise" /\ outcome.exc = "IndexError")
           /\ Matching # {} => trace = <<SetOptionCommand>>

C3_Witness ==
    /\ call = [op |-> "set_window_option", args |-> <<PyStr(Key1), PyBool(FALSE)>>]
    /\ _window_id = W2
    /\ trace = <<Tmux(<<"set-window-option", <<"-", "t", "@", "2">>,
                        PyStr(Key1), PyStr(<<"o", "f", "f">>)>>)>>
    /\ outcome = Return(None)

\* The command a rename_window call is expected to issue.
RenameCommand ==
    Tmux(<<"rename-window", <<"-", "t">> \o session_id \o <<":">> \o _window_id,
           call.args[1]>>)

\* What rename_window does when the command went through, and when it raised.
RenamedTrace == <<RenameCommand, SetItem("window_name", call.args[1]), UpdateWindows>>
RenameFailedTrace == <<RenameCommand, LoggerError("Exception"), UpdateWindows>>

RenameEnded ==
    /\ outcome = Return(SelfRef)
    /\ trace \in {RenamedTrace, RenameFailedTrace,
                  <<LoggerError("IndexError"), UpdateWindows>>}
    /\ (trace = RenamedTrace) = TmuxReturned
    /\ (trace = RenameFailedTrace) = (Commands # <<>> /\ process.raises)

C7_LookupFirstMatch ==
    call.op = "_TMUX"
        => IF Matching = {} THEN outcome.kind = "raise" /\ outcome.exc = "IndexError"
           ELSE /\ outcome.kind = "return"
                /\ \E i \in Matching :
                       /\ \A j \in Matching : i <= j
                       /\ outcome.value = PyDict(_windows[i])
                /\ "window_id" \in DOMAIN outcome.value.v
                /\ outcome.value.v["window_id"] = _window_id

C7_Witness ==
    /\ call.op = "_TMUX"
    /\ _window_id = W1
    /\ _windows = <<RowNoId(NameA), Row(W1, NameB)>>
    /\ outcome = Return(PyDict(Row(W1, NameB)))

====
